---- MODULE Spec2Model ----
(***************************************************************************)
(* Model of NubertSpeakerCoordinator                                       *)
(* (custom_components/nubert/media_player.py): the BLE session manager of  *)
(* the Nubert integration.  Every coroutine is cut at its await points;    *)
(* the code between two awaits runs atomically on the asyncio loop and is  *)
(* one action.                                                             *)
(***************************************************************************)
EXTENDS Integers, Sequences, FiniteSets, TLC

VARIABLES
    power,            \* self.power: None | Some(TRUE) (on) | Some(FALSE) (off)
    volume_db,        \* self.volume_db: None | Some(dB)
    source_code,      \* self.source_code: None | Some(0..255)
    muted,            \* self.muted: None | Some(BOOLEAN)
    is_slave,         \* self.is_slave: None | Some(BOOLEAN)
    ble_lock,         \* self._ble_lock: NoTask | the task holding it
    hasClient,        \* self._client is not None (self._char is set with it)
    linkUp,           \* self._client.is_connected
    subscribed,       \* start_notify registered _notification_cb on self._client
    is_sub,           \* self._is_sub
    notif_supported,  \* self._notif_supported
    event_set,        \* the local asyncio.Event of each cycle: is it set
    pc,               \* position of every task
    attempt,          \* _async_update_data: the loop variable `attempt`
    ens,              \* _ensure_connected: loop variable and what the call did
    cmd,              \* the command a command task executes
    ind               \* _ble_connect_indication_sequence tasks, counted per phase

vars == <<power, volume_db, source_code, muted, is_slave, ble_lock, hasClient,
          linkUp, subscribed, is_sub, notif_supported, event_set,
          pc, attempt, ens, cmd, ind>>

session == <<power, volume_db, source_code, muted, is_slave>>

\* Python's None in an optional field; Some(v) is a field holding v.
None == <<>>
Some(v) == <<v>>

\* no task: the lock is free, no event is stored
NoTask == "none"

\* ------------------------------------------------------------------ bounds

\* Indication tasks alive at the same time.
MaxInd == 1

\* Requested dB values reach DbSpan below and above zero.
DbSpan == 102

\* Notification frames are at most MaxFrameLen bytes long.
MaxFrameLen == 3

\* ------------------------------------------------------- program constants

SOFT_POWER_OFF_GET == 30
SOFT_POWER_OFF_SET == 31
VOLUME_ADJUST_GET == 10
VOLUME_ADJUST_SET == 11
SOURCE_SELECT_GET == 14
SOURCE_SELECT_SET == 15
MUTE_SETTING_GET == 74
MUTE_SETTING_SET == 75
IS_SLAVE == 76
BLE_CONNECT_INDICATION == 77
ALL_SETTING_GET == 64

COMMAND_BYTES ==
    <<ALL_SETTING_GET, 5, SOFT_POWER_OFF_GET, VOLUME_ADJUST_GET,
      SOURCE_SELECT_GET, MUTE_SETTING_GET, IS_SLAVE>>

\* for attempt in range(1, 4)
LastConnectAttempt == 3
\* if attempt == 5: raise BleakError(...)
RaiseAtAttempt == 5
\* variant: a loop of three passes
LastPollAttemptThree == 2 + 1

\* for attempt in range(1, 3)
LastPollAttempt == 2

\* data: bytearray
ByteMax == 255

SpeakerRawMax == 100
SpeakerOffset == 100
SubRawMax == 21
SubOffset == 15
SubDbMin == -15
SubDbMax == 6
SpeakerDbMin == -100
SpeakerDbMax == 0

Min(a, b) == IF a < b THEN a ELSE b
Max(a, b) == IF a > b THEN a ELSE b

\* -------------------------------------------------------------- the codec

\* payload = data[2 : 2 + length]: a Python slice, cut at the end of data.
Payload(data) ==
    LET length == data[2]
        last == Min(2 + length, Len(data))
    IN  IF last < 3 THEN <<>> ELSE SubSeq(data, 3, last)

\* variant: an empty payload read as "off"
ParsePowerEmptyAsOff(payload) ==
    IF payload = <<>> THEN Some(FALSE) ELSE Some(payload[1] = 0)

\* _parse_power
ParsePower(payload) ==
    IF payload = <<>> THEN None ELSE Some(payload[1] = 0)

\* _parse_source
ParseSource(payload) ==
    IF payload = <<>> THEN None ELSE Some(payload[1])

\* variant: the Speaker scale for both profiles, as _parse_volume has it
VolumeFromRawSpeakerOnly(sub, raw) ==
    Min(raw, SpeakerRawMax) - SpeakerOffset

\* _notification_cb, the volume branch
VolumeFromRaw(sub, raw) ==
    IF sub THEN Min(raw, SubRawMax) - SubOffset
    ELSE Min(raw, SpeakerRawMax) - SpeakerOffset

\* variant: the offset without the clamp
VolumeRawUnclamped(sub, db) ==
    IF sub THEN db + SubOffset ELSE db + SpeakerOffset

\* async_set_volume: the raw byte for a dB request
VolumeRaw(sub, db) ==
    IF sub THEN Max(SubDbMin, Min(SubDbMax, db)) + SubOffset
    ELSE Max(SpeakerDbMin, Min(SpeakerDbMax, db)) + SpeakerOffset

\* _notification_cb as a function of the cached fields s, the profile and the
\* frame: the fields after it, and whether it called async_set_updated_data.
NotificationCb(s, sub, data) ==
    LET same == [s EXCEPT !.updated = FALSE]
    IN  IF Len(data) < 2 THEN same
        ELSE
          LET cmdId == data[1]
              payload == Payload(data)
          IN  IF cmdId = SOFT_POWER_OFF_GET THEN
                  IF ParsePower(payload) # None
                  THEN [s EXCEPT !.power = ParsePower(payload), !.updated = TRUE]
                  ELSE same
              ELSE IF cmdId = VOLUME_ADJUST_GET THEN
                  IF payload # <<>>
                  THEN [s EXCEPT !.volume_db = Some(VolumeFromRaw(sub, payload[1])),
                                 !.updated = TRUE]
                  ELSE same
              ELSE IF cmdId = SOURCE_SELECT_GET THEN
                  IF ParseSource(payload) # None
                  THEN [s EXCEPT !.source_code = ParseSource(payload),
                                 !.updated = TRUE]
                  ELSE same
              ELSE IF cmdId = MUTE_SETTING_GET THEN
                  IF payload # <<>>
                  THEN [s EXCEPT !.muted = Some(payload[1] # 0), !.updated = TRUE]
                  ELSE same
              ELSE IF cmdId = IS_SLAVE THEN
                  IF payload # <<>>
                  THEN [s EXCEPT !.is_slave = Some(payload[1] # 0), !.updated = TRUE]
                  ELSE same
              ELSE same

\* variant: the callback starts from a cache that has forgotten power
CachedPowerForgotten ==
    [power |-> None, volume_db |-> volume_db, source_code |-> source_code,
     muted |-> muted, is_slave |-> is_slave, updated |-> FALSE]

\* the cached fields as _notification_cb finds them
Cached ==
    [power |-> power, volume_db |-> volume_db, source_code |-> source_code,
     muted |-> muted, is_slave |-> is_slave, updated |-> FALSE]

\* ------------------------------------------------------------------ tasks

Cycles == {"u1", "u2"}
Cmds == {"c1", "c2"}
Procs == Cycles \cup Cmds

\* "on" and "off" are the two writes of the sequence in flight with a response
\* requested, "on_nr" and "off_nr" the same writes with none requested
IndPhases == {"start", "on", "on_nr", "sleep", "off", "off_nr"}

NoEns ==
    [st |-> "none", k |-> 0, backoffs |-> 0, scheduled |-> 0, sub |-> "none",
     ack |-> FALSE]
NoCmd ==
    [op |-> "none", x |-> FALSE, frame |-> <<>>, writes |-> 0, sub |-> FALSE,
     emitted |-> FALSE, ack |-> FALSE]

\* Frames the device sends in the session model.
Frames ==
    { <<SOFT_POWER_OFF_GET, 1, 0>>, <<SOFT_POWER_OFF_GET, 1, 1>>,
      <<VOLUME_ADJUST_GET, 1, 50>>, <<SOURCE_SELECT_GET, 1, 0>>,
      <<VOLUME_ADJUST_GET>>, <<VOLUME_ADJUST_GET, 0>>, <<ALL_SETTING_GET, 1, 0>> }

\* Frames the device sends while two cycles overlap.
OverlapFrames == { <<SOURCE_SELECT_GET, 1, 0>> }

\* Commands called while two cycles overlap.
OverlapCalls == { <<"volume", -20>> }

\* Commands called in the session model: <<operation, argument>>.
SessionCalls == { <<"power", TRUE>>, <<"power", FALSE>>, <<"volume", -20>> }

\* One call of every command, setPower both ways.
Calls == SessionCalls \cup { <<"mute", TRUE>>, <<"source", 0>> }

Init ==
    /\ power = None
    /\ volume_db = None
    /\ source_code = None
    /\ muted = None
    /\ is_slave = None
    /\ ble_lock = NoTask
    /\ hasClient = FALSE
    /\ linkUp = FALSE
    /\ subscribed = FALSE
    /\ is_sub = FALSE
    /\ notif_supported = TRUE
    /\ event_set = [u \in Cycles |-> FALSE]
    /\ pc = [p \in Procs |-> "idle"]
    /\ attempt = [u \in Cycles |-> 0]
    /\ ens = [u \in Cycles |-> NoEns]
    /\ cmd = [c \in Cmds |-> NoCmd]
    /\ ind = [ph \in IndPhases |-> 0]


\* ------------------------------------------------------- reconciliation cycle

\* indication writes in flight
IndWriting == ind["on"] + ind["on_nr"] + ind["off"] + ind["off_nr"]

IndTotal == ind["start"] + ind["sleep"] + IndWriting

\* variant: every write asks for a response, as nubert_cli.py writes
WriteResponseAlways(sub) == TRUE

\* write_gatt_char(..., response=not self._is_sub)
WriteResponse(sub) == ~sub

\* variant: a write path that does not wait for the lock
LockFreeAlways == TRUE

\* async with self._ble_lock: entered only while nobody holds the lock
LockFree == ble_lock = NoTask

\* variant: UpdateFailed raised without leaving the lock
RaiseUpdateFailedKeepingLock(u, e) ==
    /\ UNCHANGED ble_lock
    /\ pc' = [pc EXCEPT ![u] = "raised"]
    /\ attempt' = [attempt EXCEPT ![u] = 0]
    /\ ens' = [ens EXCEPT ![u] = e]

\* the except/finally of _async_update_data on a BleakError or another
\* Exception: the lock is left and UpdateFailed raised; e is what
\* _ensure_connected did in this pass
RaiseUpdateFailed(u, e) ==
    /\ ble_lock' = NoTask
    /\ pc' = [pc EXCEPT ![u] = "raised"]
    /\ attempt' = [attempt EXCEPT ![u] = 0]
    /\ ens' = [ens EXCEPT ![u] = e]

\* after _ensure_connected returned: the None check and the start of the query
\* write, on a handle with hc (a client is stored) and up (it is connected)
\* of profile sb; a write on a client that is not connected raises at once
BeginQuery(u, hc, up, sb, e) ==
    IF hc /\ up
    THEN /\ ble_lock' = u
         /\ pc' = [pc EXCEPT ![u] = "qwrite"]
         /\ ens' = [ens EXCEPT ![u] = [e EXCEPT !.ack = WriteResponse(sb)]]
         /\ UNCHANGED attempt
    ELSE RaiseUpdateFailed(u, e)

\* _async_update_data is called: the first pass of the loop creates its event
\* (self._poll_event, which only holds that event and is never read, is left
\* out of the state)
UpdateStart(u) ==
    /\ pc[u] = "idle"
    /\ attempt' = [attempt EXCEPT ![u] = 1]
    /\ event_set' = [event_set EXCEPT ![u] = FALSE]
    /\ pc' = [pc EXCEPT ![u] = "lock"]
    /\ UNCHANGED <<session, ble_lock, hasClient, linkUp, subscribed, is_sub,
                   notif_supported, ens, cmd, ind>>

\* variant: _ensure_connected without its early return
AlreadyConnectedNever == FALSE

\* _ensure_connected: `if self._client and self._client.is_connected: return`
AlreadyConnected == hasClient /\ linkUp

\* the lock is taken and _ensure_connected starts: a connected handle returns
\* at once, otherwise the first connect attempt is awaited
UpdateAcquire(u) ==
    /\ pc[u] = "lock"
    /\ LockFree
    /\ IF AlreadyConnected
       THEN BeginQuery(u, hasClient, linkUp, is_sub,
                       [NoEns EXCEPT !.st = "connected"])
       ELSE /\ ens' = [ens EXCEPT ![u] = [NoEns EXCEPT !.st = "run", !.k = 1]]
            /\ ble_lock' = u
            /\ pc' = [pc EXCEPT ![u] = "connecting"]
            /\ UNCHANGED attempt
    /\ UNCHANGED <<session, hasClient, linkUp, subscribed, is_sub,
                   notif_supported, event_set, cmd, ind>>

\* variant: no backoff after the first failed attempt
SleepsAfterFailureNotFirst(k) == k > 1

\* except Exception: ... await asyncio.sleep(2), after every failed attempt
SleepsAfterFailure(k) == TRUE

\* a failed connect attempt k: `if attempt == 5: raise`, else the backoff sleep
AttemptFailed(u) ==
    IF ens[u].k = RaiseAtAttempt
    THEN RaiseUpdateFailed(u, [ens[u] EXCEPT !.st = "connect_failed"])
    ELSE /\ ens' = [ens EXCEPT ![u].backoffs =
                        IF SleepsAfterFailure(ens[u].k) THEN @ + 1 ELSE @]
         /\ pc' = [pc EXCEPT ![u] = "backoff"]
         /\ UNCHANGED <<ble_lock, attempt>>

\* asyncio.create_task(self._ble_connect_indication_sequence())
SpawnIndication == ind' = [ind EXCEPT !["start"] = @ + 1]

\* _ensure_connected returns from inside the loop: the indication sequence was
\* scheduled, sub tells how the subscription went
EnsSucceeded(u, sub) ==
    [ens[u] EXCEPT !.st = "ok", !.scheduled = @ + 1, !.sub = sub]

\* one connect attempt up to its first await after client.connect(): the link
\* fails (or no characteristic is found), or a characteristic of one of the two
\* profiles is found, with or without the notify property
ConnectAttempt(u) ==
    /\ pc[u] = "connecting"
    /\ \E found \in {"none", "speaker", "sub"}, notify \in BOOLEAN :
        IF found = "none"
        THEN /\ notify
             /\ AttemptFailed(u)
             /\ UNCHANGED <<hasClient, linkUp, subscribed, is_sub,
                            notif_supported, ind>>
        ELSE /\ hasClient' = TRUE
             /\ linkUp' = TRUE
             /\ subscribed' = FALSE
             /\ is_sub' = (found = "sub")
             /\ IF notify
                THEN /\ pc' = [pc EXCEPT ![u] = "subscribing"]
                     /\ UNCHANGED <<ens, ble_lock, attempt, notif_supported, ind>>
                ELSE /\ IndTotal < MaxInd
                     /\ notif_supported' = FALSE
                     /\ SpawnIndication
                     /\ BeginQuery(u, TRUE, TRUE, found = "sub",
                                   EnsSucceeded(u, "nonotify"))
    /\ UNCHANGED <<session, event_set, cmd>>

\* variant: a rejected subscription leaves the flag as it was
FlagAfterSubscribeKept(r) == notif_supported

\* self._notif_supported after start_notify: untouched when it succeeded, False
\* on BleakError
FlagAfterSubscribe(r) == IF r = "ok" THEN notif_supported ELSE FALSE

\* await client.start_notify(...) ends: it registered the callback, raised
\* BleakError (caught: polling fallback), or raised another exception (the
\* attempt fails and client.disconnect() is tried on the client, which is
\* already stored, any exception of the disconnect suppressed)
SubscribeResult(u) ==
    /\ pc[u] = "subscribing"
    /\ \E r \in {"ok", "bleak_error", "error"} :
        IF r = "error"
        THEN /\ \E closed \in BOOLEAN : linkUp' = (linkUp /\ ~closed)
             /\ subscribed' = FALSE
             /\ AttemptFailed(u)
             /\ UNCHANGED <<notif_supported, ind>>
        ELSE /\ IndTotal < MaxInd
             /\ subscribed' = (r = "ok" /\ linkUp)
             /\ notif_supported' = FlagAfterSubscribe(r)
             /\ SpawnIndication
             /\ BeginQuery(u, hasClient, linkUp, is_sub,
                           EnsSucceeded(u, IF r = "ok" THEN "subscribed"
                                           ELSE "rejected"))
             /\ UNCHANGED linkUp
    /\ UNCHANGED <<session, hasClient, is_sub, event_set, cmd>>

\* the backoff sleep ends: the next attempt, or the loop is over and
\* _ensure_connected returns
BackoffEnd(u) ==
    /\ pc[u] = "backoff"
    /\ IF ens[u].k < LastConnectAttempt
       THEN /\ ens' = [ens EXCEPT ![u].k = @ + 1]
            /\ pc' = [pc EXCEPT ![u] = "connecting"]
            /\ UNCHANGED <<ble_lock, attempt>>
       ELSE BeginQuery(u, hasClient, linkUp, is_sub,
                       [ens[u] EXCEPT !.st = "exhausted"])
    /\ UNCHANGED <<session, hasClient, linkUp, subscribed, is_sub,
                   notif_supported, event_set, cmd, ind>>

\* variant: the lock left between the query write and the wait
LockLeftBeforeWait(u) == NoTask

\* wait_for(event.wait(), ...) and asyncio.sleep(2) are awaited inside
\* `async with self._ble_lock`: the pass keeps the lock while it waits
LockDuringWait(u) == u

\* the query write ends: acknowledged, and the wait (or the polling sleep)
\* starts, or it raised
QueryWriteEnd(u) ==
    /\ pc[u] = "qwrite"
    /\ \E ok \in BOOLEAN :
        IF ok
        THEN /\ linkUp
             /\ pc' = [pc EXCEPT ![u] = IF notif_supported THEN "wait" ELSE "sleep"]
             /\ ens' = [ens EXCEPT ![u] = NoEns]
             /\ ble_lock' = LockDuringWait(u)
             /\ UNCHANGED attempt
        ELSE RaiseUpdateFailed(u, [NoEns EXCEPT !.st = "write_failed"])
    /\ UNCHANGED <<session, hasClient, linkUp, subscribed, is_sub,
                   notif_supported, event_set, cmd, ind>>

\* variant: a snapshot counts as full only with power, as the comment above
\* the wait has it
FullSnapshotWithPower == power # None /\ volume_db # None /\ source_code # None

\* if self.volume_db is not None and self.source_code is not None: return
FullSnapshot == volume_db # None /\ source_code # None

\* the end of one pass of the loop, the lock left: return with a full
\* snapshot, break on the deadline (late), or start the next pass
AttemptEnd(u, late) ==
    /\ ble_lock' = NoTask
    /\ IF FullSnapshot \/ late \/ attempt[u] >= LastPollAttempt
       THEN /\ pc' = [pc EXCEPT ![u] = "returned"]
            /\ UNCHANGED <<attempt, event_set>>
       ELSE /\ pc' = [pc EXCEPT ![u] = "lock"]
            /\ attempt' = [attempt EXCEPT ![u] = @ + 1]
            /\ event_set' = [event_set EXCEPT ![u] = FALSE]

\* variant: event.wait() awaited without a timeout
WaitCanEndOnEventOnly(u) == event_set[u]

\* asyncio.wait_for(event.wait(), timeout=3): the wait ends when the event is
\* set or, failing that, when the three seconds are over
WaitCanEnd(u) == TRUE

\* wait_for(event.wait(), timeout=3) ends: the event was set, or TimeoutError
\* (caught and logged); either way the pass is over
WaitEnd(u) ==
    /\ pc[u] = "wait"
    /\ WaitCanEnd(u)
    /\ \E late \in BOOLEAN : AttemptEnd(u, late)
    /\ UNCHANGED <<session, hasClient, linkUp, subscribed, is_sub,
                   notif_supported, ens, cmd, ind>>

\* asyncio.sleep(2) of the polling fallback ends
SleepEnd(u) ==
    /\ pc[u] = "sleep"
    /\ \E late \in BOOLEAN : AttemptEnd(u, late)
    /\ UNCHANGED <<session, hasClient, linkUp, subscribed, is_sub,
                   notif_supported, ens, cmd, ind>>

\* the caller of _async_update_data takes its result
UpdateReturn(u) ==
    /\ pc[u] \in {"returned", "raised"}
    /\ pc' = [pc EXCEPT ![u] = "idle"]
    /\ ens' = [ens EXCEPT ![u] = NoEns]
    /\ attempt' = [attempt EXCEPT ![u] = 0]
    /\ UNCHANGED <<session, ble_lock, hasClient, linkUp, subscribed, is_sub,
                   notif_supported, event_set, cmd, ind>>

\* ------------------------------------------------------------------ commands

\* variant: no idempotence guard
SetPowerNeverSkips(x) == FALSE

\* async_set_power: `if self.power is not None and self.power == turn_on: return`
SetPowerSkips(x) == power # None /\ power = Some(x)

\* variant: every command calls async_set_updated_data after its write
EmitsUpdateAlways(op) == TRUE

\* async_set_updated_data is called by async_set_power only
EmitsUpdate(op) == op = "power"

\* async_set_power: 0 if turn_on else 1
PowerByte(x) == IF x THEN 0 ELSE 1

\* packet = cmd_hex + "01" + f"{value_byte:02X}"
SimplePacket(cmdId, value) == <<cmdId, 1, value>>

\* a command is called: the code up to `async with self._ble_lock`
CmdCall(c, op, a) ==
    /\ pc[c] = "idle"
    /\ IF op = "power" /\ SetPowerSkips(a)
       THEN /\ pc' = [pc EXCEPT ![c] = "returned"]
            /\ cmd' = [cmd EXCEPT ![c] = [NoCmd EXCEPT !.op = op, !.x = a]]
       ELSE /\ pc' = [pc EXCEPT ![c] = "lock"]
            /\ cmd' = [cmd EXCEPT ![c] =
                 [op |-> op, x |-> a, writes |-> 0,
                  sub |-> (op = "volume" /\ is_sub),
                  emitted |-> FALSE, ack |-> FALSE,
                  frame |->
                    CASE op = "power" ->
                           SimplePacket(SOFT_POWER_OFF_SET, PowerByte(a))
                      [] op = "volume" ->
                           SimplePacket(VOLUME_ADJUST_SET, VolumeRaw(is_sub, a))
                      [] op = "mute" ->
                           SimplePacket(MUTE_SETTING_SET, IF a THEN 1 ELSE 0)
                      [] op = "source" ->
                           SimplePacket(SOURCE_SELECT_SET, a)]]
    /\ UNCHANGED <<session, ble_lock, hasClient, linkUp, subscribed, is_sub,
                   notif_supported, event_set, attempt, ens, ind>>

\* variant: the write of a command goes out whatever the handle is
CmdCanWriteAlways == TRUE

\* self._client.write_gatt_char(...) in _async_send_simple: the write starts
\* only on a stored client that is connected; on None the attribute lookup
\* raises and on a disconnected client bleak raises
CmdCanWrite == hasClient /\ linkUp

\* _async_send_simple takes the lock and starts its write; without a stored,
\* connected client the write raises at once and the lock is left again
CmdAcquire(c) ==
    /\ pc[c] = "lock"
    /\ LockFree
    /\ IF CmdCanWrite
       THEN /\ ble_lock' = c
            /\ pc' = [pc EXCEPT ![c] = "write"]
            /\ cmd' = [cmd EXCEPT ![c].writes = @ + 1,
                                  ![c].ack = WriteResponse(is_sub)]
       ELSE /\ ble_lock' = NoTask
            /\ pc' = [pc EXCEPT ![c] = "raised"]
            /\ cmd' = cmd
    /\ UNCHANGED <<session, hasClient, linkUp, subscribed, is_sub,
                   notif_supported, event_set, attempt, ens, ind>>

\* variant: async_set_power stores the value whether or not the write raised
StoresPowerEvenOnError(op, ok) == op = "power"

\* async_set_power: `self.power = turn_on` follows the awaited write, so it
\* runs only when the write did not raise
StoresPower(op, ok) == ok /\ op = "power"

\* the command's write ends and the lock is left; async_set_power then stores
\* the requested value and calls async_set_updated_data
CmdWriteEnd(c) ==
    /\ pc[c] = "write"
    /\ ble_lock' = NoTask
    /\ \E ok \in BOOLEAN :
        IF ok
        THEN /\ linkUp
             /\ pc' = [pc EXCEPT ![c] = "returned"]
             /\ power' = IF StoresPower(cmd[c].op, ok) THEN Some(cmd[c].x)
                         ELSE power
             /\ cmd' = [cmd EXCEPT ![c].emitted = EmitsUpdate(cmd[c].op),
                                   ![c].ack = FALSE]
        ELSE /\ pc' = [pc EXCEPT ![c] = "raised"]
             /\ power' = IF StoresPower(cmd[c].op, ok) THEN Some(cmd[c].x)
                         ELSE power
             /\ cmd' = [cmd EXCEPT ![c].ack = FALSE]
    /\ UNCHANGED <<volume_db, source_code, muted, is_slave, hasClient, linkUp,
                   subscribed, is_sub, notif_supported, event_set,
                   attempt, ens, ind>>

\* the caller of the command takes its result
CmdReturn(c) ==
    /\ pc[c] \in {"returned", "raised"}
    /\ pc' = [pc EXCEPT ![c] = "idle"]
    /\ cmd' = [cmd EXCEPT ![c] = NoCmd]
    /\ UNCHANGED <<session, ble_lock, hasClient, linkUp, subscribed, is_sub,
                   notif_supported, event_set, attempt, ens, ind>>

\* ------------------------------------------------------- source selection

\* Strings are sequences of one-character strings.
LowerCase ==
    <<"a", "b", "c", "d", "e", "f", "g", "h", "i", "j", "k", "l", "m">> \o
    <<"n", "o", "p", "q", "r", "s", "t", "u", "v", "w", "x", "y", "z">>

UpperCase ==
    <<"A", "B", "C", "D", "E", "F", "G", "H", "I", "J", "K", "L", "M">> \o
    <<"N", "O", "P", "Q", "R", "S", "T", "U", "V", "W", "X", "Y", "Z">>

\* str.upper() on the characters that occur in source names
Upper(str) ==
    [i \in 1..Len(str) |->
       IF \E j \in 1..Len(LowerCase) : LowerCase[j] = str[i]
       THEN UpperCase[CHOOSE j \in 1..Len(LowerCase) : LowerCase[j] = str[i]]
       ELSE str[i]]

IsSeparator(ch) == ch \in {" ", "-"}

\* nubert_cli.py: .replace(" ", "").replace("-", "")
StripSeparators(str) == SelectSeq(str, LAMBDA ch : ~IsSeparator(ch))

\* const.py: SOURCE_NAMES, as <<code, name>> pairs
SOURCE_NAMES ==
    { <<0, <<"A", "U", "X">>>>,
      <<2, <<"X", "L", "R">>>>,
      <<4, <<"C", "O", "A", "X", " ", "1">>>>,
      <<5, <<"C", "O", "A", "X", " ", "2">>>>,
      <<6, <<"O", "P", "T", "O", " ", "1">>>>,
      <<7, <<"O", "P", "T", "O", " ", "2">>>>,
      <<8, <<"U", "S", "B">>>>,
      <<9, <<"P", "O", "R", "T">>>> }

SOURCE_NAMES_SPEAKER == SOURCE_NAMES

SOURCE_NAMES_SUB ==
    { <<0, <<"A", "U", "X">>>>,
      <<1, <<"W", "I", "R", "E", "L", "E", "S", "S">>>> }

\* NubertSpeakerCoordinator.source_names
SourceNames(sub) == IF sub THEN SOURCE_NAMES_SUB ELSE SOURCE_NAMES_SPEAKER

\* nubert_cli.py: key == name.replace(" ", "").replace("-", "").upper()
NameMatchesStripped(source, name) ==
    Upper(StripSeparators(source)) = Upper(StripSeparators(name))

\* NubertMediaPlayer.async_select_source: source.upper() == name.upper()
NameMatches(source, name) == Upper(source) = Upper(name)

\* the code of the first entry of the table whose name matches, if any
EntitySourceCode(sub, source) ==
    LET hits == {e \in SourceNames(sub) : NameMatches(source, e[2])}
    IN  IF hits = {} THEN None ELSE Some((CHOOSE e \in hits : TRUE)[1])

\* nubert_cli.py --set-source: SOURCE_NAMES whatever the device, separators
\* stripped on both sides
CliSourceCode(source) ==
    LET hits == {e \in SOURCE_NAMES : NameMatchesStripped(source, e[2])}
    IN  IF hits = {} THEN None ELSE Some((CHOOSE e \in hits : TRUE)[1])

\* Names a caller selects a source by.
SourceInputs ==
    { <<"a", "u", "x">>,
      <<"A", "U", "X">>,
      <<"c", "o", "a", "x", "1">>,
      <<"C", "O", "A", "X", " ", "1">>,
      <<"c", "o", "a", "x", "-", "1">>,
      <<"O", "p", "t", "o", " ", "2">>,
      <<"w", "i", "r", "e", "l", "e", "s", "s">>,
      <<"b", "o", "g", "u", "s">> }

\* NubertMediaPlayer.async_select_source(source): the coordinator's
\* async_select_source is called with the matching code; with no match the
\* loop ends and the call returns
EntitySelectSource(c, source) ==
    LET code == EntitySourceCode(is_sub, source)
    IN  IF code # None
        THEN CmdCall(c, "source", code[1])
        ELSE /\ pc[c] = "idle"
             /\ pc' = [pc EXCEPT ![c] = "returned"]
             /\ cmd' = [cmd EXCEPT ![c] = [NoCmd EXCEPT !.op = "source"]]
             /\ UNCHANGED <<session, ble_lock, hasClient, linkUp, subscribed,
                            is_sub, notif_supported, event_set, attempt, ens,
                            ind>>

\* ------------------------------------------- the connect indication sequence

IndMove(from, to) ==
    ind' = [ph \in IndPhases |->
              ind[ph] - (IF ph = from THEN 1 ELSE 0) + (IF ph = to THEN 1 ELSE 0)]

\* variant: a step of the sequence takes the link down with it
IndClosesLink ==
    /\ linkUp' = FALSE
    /\ UNCHANGED <<session, ble_lock, hasClient, subscribed, is_sub,
                   notif_supported, event_set, pc, attempt, ens, cmd>>

\* the sequence assigns nothing of the coordinator, and its `except Exception`
\* keeps every failure inside the task
IndUnchanged ==
    UNCHANGED <<session, ble_lock, hasClient, linkUp, subscribed, is_sub,
                notif_supported, event_set, pc, attempt, ens, cmd>>

\* the task starts: _send(True) writes on self._client, outside the lock; a
\* disconnected client raises, which ends the task
IndStart ==
    /\ ind["start"] > 0
    /\ IndMove("start", IF ~(hasClient /\ linkUp) THEN "end"
                         ELSE IF WriteResponse(is_sub) THEN "on" ELSE "on_nr")
    /\ IndUnchanged

\* the first write ends: asyncio.sleep(5), or the exception ends the task
IndOnEnd ==
    /\ \E ph \in {"on", "on_nr"}, ok \in BOOLEAN :
         /\ ind[ph] > 0
         /\ ok => linkUp
         /\ IndMove(ph, IF ok THEN "sleep" ELSE "end")
    /\ IndUnchanged

\* the sleep ends: _send(False) writes, outside the lock
IndSleepEnd ==
    /\ ind["sleep"] > 0
    /\ IndMove("sleep", IF ~(hasClient /\ linkUp) THEN "end"
                         ELSE IF WriteResponse(is_sub) THEN "off" ELSE "off_nr")
    /\ IndUnchanged

\* the second write ends, and the task with it
IndOffEnd ==
    /\ \E ph \in {"off", "off_nr"} :
         /\ ind[ph] > 0
         /\ IndMove(ph, "end")
    /\ IndUnchanged

\* ------------------------------------------------------------ the device side

\* the transport calls _notification_cb with a frame
Notify(data) ==
    /\ subscribed
    /\ linkUp
    /\ LET s == NotificationCb(Cached, is_sub, data)
       IN  /\ power' = s.power
           /\ volume_db' = s.volume_db
           /\ source_code' = s.source_code
           /\ muted' = s.muted
           /\ is_slave' = s.is_slave
    /\ UNCHANGED <<ble_lock, hasClient, linkUp, subscribed, is_sub,
                   notif_supported, event_set, pc, attempt, ens,
                   cmd, ind>>

\* the link is lost
LinkDrop ==
    /\ linkUp
    /\ linkUp' = FALSE
    /\ subscribed' = FALSE
    /\ UNCHANGED <<session, ble_lock, hasClient, is_sub, notif_supported,
                   event_set, pc, attempt, ens, cmd, ind>>

\* variant: async_disconnect without its check
DisconnectActsAlways == TRUE

\* async_disconnect: `if self._client and self._client.is_connected`
DisconnectActs == hasClient /\ linkUp

\* async_disconnect: disconnects a connected client, any exception suppressed
Disconnect ==
    /\ IF DisconnectActs
       THEN \E closed \in BOOLEAN :
              /\ linkUp' = ~closed
              /\ subscribed' = (subscribed /\ ~closed)
       ELSE UNCHANGED <<linkUp, subscribed>>
    /\ UNCHANGED <<session, ble_lock, hasClient, is_sub, notif_supported,
                   event_set, pc, attempt, ens, cmd, ind>>

\* ------------------------------------------------------------ specifications

\* The tasks `cycles` and `cmds` run, the commands of `calls` are called and
\* the device sends the frames of `frames`.
NextOver(cycles, cmds, calls, frames) ==
    \/ \E u \in cycles :
         \/ UpdateStart(u)
         \/ UpdateAcquire(u)
         \/ ConnectAttempt(u)
         \/ SubscribeResult(u)
         \/ BackoffEnd(u)
         \/ QueryWriteEnd(u)
         \/ WaitEnd(u)
         \/ SleepEnd(u)
         \/ UpdateReturn(u)
    \/ \E c \in cmds :
         \/ \E call \in calls : CmdCall(c, call[1], call[2])
         \/ CmdAcquire(c)
         \/ CmdWriteEnd(c)
         \/ CmdReturn(c)
    \/ IndStart
    \/ IndOnEnd
    \/ IndSleepEnd
    \/ IndOffEnd
    \/ \E data \in frames : Notify(data)
    \/ LinkDrop
    \/ Disconnect

\* One reconciliation cycle at a time, one command at a time.
Next == NextOver({"u1"}, {"c1"}, SessionCalls, Frames)

Spec == Init /\ [][Next]_vars

\* Two reconciliation cycles that may overlap, and a command.
NextOverlap == NextOver(Cycles, {"c1"}, OverlapCalls, OverlapFrames)

SpecOverlap == Init /\ [][NextOverlap]_vars


\* A connected, subscribed session of either profile with nothing cached yet,
\* as a first successful connect leaves it once its tasks are done.
ConnectedInit ==
    /\ power = None
    /\ volume_db = None
    /\ source_code = None
    /\ muted = None
    /\ is_slave = None
    /\ ble_lock = NoTask
    /\ hasClient = TRUE
    /\ linkUp = TRUE
    /\ subscribed = TRUE
    /\ is_sub \in BOOLEAN
    /\ notif_supported = TRUE
    /\ event_set = [u \in Cycles |-> FALSE]
    /\ pc = [p \in Procs |-> "idle"]
    /\ attempt = [u \in Cycles |-> 0]
    /\ ens = [u \in Cycles |-> NoEns]
    /\ cmd = [c \in Cmds |-> NoCmd]
    /\ ind = [ph \in IndPhases |-> 0]

\* The first n bytes of id, length, b followed by zeros.
Frame(id, length, b, n) ==
    SubSeq(<<id, length, b>> \o [i \in 1..MaxFrameLen |-> 0], 1, n)

CodecIds ==
    { SOFT_POWER_OFF_GET, VOLUME_ADJUST_GET, SOURCE_SELECT_GET,
      MUTE_SETTING_GET, IS_SLAVE, ALL_SETTING_GET, BLE_CONNECT_INDICATION }

\* Frames of every recognized and two unrecognized command ids, of every
\* length up to MaxFrameLen, with a length byte below, at and above the
\* payload present.
CodecFrames ==
    { Frame(id, length, b, n) :
        id \in CodecIds, length \in {0, 1, 2, ByteMax}, b \in {0, 1, ByteMax},
        n \in 0..MaxFrameLen }

\* _notification_cb applied to any sequence of frames of CodecFrames.
CodecNext == \E data \in CodecFrames : Notify(data)

SpecCodec == ConnectedInit /\ [][CodecNext]_vars

\* Volume notifications carrying every raw byte.
VolumeFrames ==
    { Frame(VOLUME_ADJUST_GET, length, r, n) :
        length \in {1, ByteMax}, r \in 0..ByteMax, n \in 3..MaxFrameLen }

\* _notification_cb applied to any sequence of volume notifications.
VolumeRxNext == \E data \in VolumeFrames : Notify(data)

SpecVolumeRx == ConnectedInit /\ [][VolumeRxNext]_vars

\* Every dB request up to DbSpan either side of zero.
DbRequests == (0 - DbSpan)..DbSpan

\* async_set_volume called with any request of DbRequests.
SetVolumeNext ==
    \/ \E db \in DbRequests : CmdCall("c1", "volume", db)
    \/ CmdAcquire("c1")
    \/ CmdWriteEnd("c1")
    \/ CmdReturn("c1")

SpecSetVolume == ConnectedInit /\ [][SetVolumeNext]_vars

\* Every command called on a connected session, the device notifying, the
\* link lost or closed at any moment; no cycle reconnects.
CommandsNext ==
    \/ \E call \in Calls : CmdCall("c1", call[1], call[2])
    \/ CmdAcquire("c1")
    \/ CmdWriteEnd("c1")
    \/ CmdReturn("c1")
    \/ \E data \in Frames : Notify(data)
    \/ LinkDrop
    \/ Disconnect

SpecCommands == ConnectedInit /\ [][CommandsNext]_vars

\* Every command called from construction on, before, during and after the
\* connect attempts of one reconciliation cycle, the link lost at any moment.
ColdCommandsNext ==
    \/ UpdateStart("u1")
    \/ UpdateAcquire("u1")
    \/ ConnectAttempt("u1")
    \/ SubscribeResult("u1")
    \/ BackoffEnd("u1")
    \/ QueryWriteEnd("u1")
    \/ WaitEnd("u1")
    \/ SleepEnd("u1")
    \/ UpdateReturn("u1")
    \/ \E call \in Calls : CmdCall("c1", call[1], call[2])
    \/ CmdAcquire("c1")
    \/ CmdWriteEnd("c1")
    \/ CmdReturn("c1")
    \/ IndStart
    \/ IndOnEnd
    \/ IndSleepEnd
    \/ IndOffEnd
    \/ LinkDrop

SpecColdCommands == Init /\ [][ColdCommandsNext]_vars

\* One reconciliation cycle and one command under fair scheduling. The event
\* loop runs every task that can run, so each awaited call of the cycle
\* returns or raises in the end (connect has its 20 s timeout, the wait its
\* 3 s, the sleeps their 2 s) and so does the write of a command;
\* asyncio.Lock wakes its waiters in the order they came, so a cycle that
\* waits for the lock gets it although commands take it again and again.
\* Nothing is assumed of the device, the link or the callers.
LiveNext == NextOver({"u1"}, {"c1"}, OverlapCalls, OverlapFrames)

LiveFairness ==
    /\ SF_vars(UpdateAcquire("u1"))
    /\ WF_vars(ConnectAttempt("u1"))
    /\ WF_vars(SubscribeResult("u1"))
    /\ WF_vars(BackoffEnd("u1"))
    /\ WF_vars(QueryWriteEnd("u1"))
    /\ WF_vars(WaitEnd("u1"))
    /\ WF_vars(SleepEnd("u1"))
    /\ WF_vars(CmdWriteEnd("c1"))

SpecLive == Init /\ [][LiveNext]_vars /\ LiveFairness

\* Reconciliation cycles on a link that, once up, is never lost or closed:
\* connect attempts are made only until the first of them succeeds.
FirstConnectNext ==
    \/ UpdateStart("u1")
    \/ UpdateAcquire("u1")
    \/ ConnectAttempt("u1")
    \/ SubscribeResult("u1")
    \/ BackoffEnd("u1")
    \/ QueryWriteEnd("u1")
    \/ WaitEnd("u1")
    \/ SleepEnd("u1")
    \/ UpdateReturn("u1")
    \/ IndStart
    \/ IndOnEnd
    \/ IndSleepEnd
    \/ IndOffEnd
    \/ \E data \in Frames : Notify(data)

SpecFirstConnect == Init /\ [][FirstConnectNext]_vars

\* Two callers of async_set_power on a connected session.
PowerRaceNext ==
    \/ \E c \in Cmds :
         \/ \E x \in BOOLEAN : CmdCall(c, "power", x)
         \/ CmdAcquire(c)
         \/ CmdWriteEnd(c)
         \/ CmdReturn(c)

SpecPowerRace == ConnectedInit /\ [][PowerRaceNext]_vars

\* A source selected by name on a connected session of either profile.
SelectSourceNext ==
    \/ \E source \in SourceInputs : EntitySelectSource("c1", source)
    \/ CmdAcquire("c1")
    \/ CmdWriteEnd("c1")
    \/ CmdReturn("c1")
    \/ \E data \in Frames : Notify(data)
    \/ LinkDrop

SpecSelectSource == ConnectedInit /\ [][SelectSourceNext]_vars

\* Reconciliation cycles with async_disconnect called at any moment; the link
\* is lost in no other way than by a call of disconnect().
DisconnectNext ==
    \/ UpdateStart("u1")
    \/ UpdateAcquire("u1")
    \/ ConnectAttempt("u1")
    \/ SubscribeResult("u1")
    \/ BackoffEnd("u1")
    \/ QueryWriteEnd("u1")
    \/ WaitEnd("u1")
    \/ SleepEnd("u1")
    \/ UpdateReturn("u1")
    \/ IndStart
    \/ IndOnEnd
    \/ IndSleepEnd
    \/ IndOffEnd
    \/ \E data \in Frames : Notify(data)
    \/ Disconnect

SpecDisconnect == Init /\ [][DisconnectNext]_vars


\* --------------------------------------------------------------- properties

\* Writes issued under `async with self._ble_lock` that are in flight: the
\* query write of a cycle, the write of a command.
LockedWriters == {p \in Procs : pc[p] \in {"qwrite", "write"}}

\* Cycles inside the lock-protected segment of a pass.
CyclesInside ==
    {u \in Cycles :
       pc[u] \in {"connecting", "subscribing", "backoff", "qwrite", "wait", "sleep"}}

\* C1: at most one query or command write is in flight at any moment, its
\* issuer holds the link lock, and at most one cycle is inside its
\* lock-protected segment (connect, query, wait), which holds the lock too.
C1_OneWriteUnderLock ==
    /\ Cardinality(LockedWriters) <= 1
    /\ \A p \in LockedWriters : ble_lock = p
    /\ Cardinality(CyclesInside) <= 1
    /\ \A u \in CyclesInside : ble_lock = u

\* a query write is in flight while the other cycle and a command queue
C1_Witness ==
    /\ pc["u1"] = "qwrite"
    /\ pc["u2"] = "lock"
    /\ pc["c1"] = "lock"

\* C2 (as claimed): a presence-indicator write is never in flight at the same
\* time as a query write or a command write.
C2_IndicationSerialized ==
    (IndWriting > 0) => LockedWriters = {}

\* C3: a setPower(x) whose write succeeded issued exactly one write, 1F 01 00
\* for on and 1F 01 01 for off, and cached power is x as it returns; a
\* setPower(x) called while cached power is x returns at once with no write.
C3_SetPower ==
    [][\A c \in Cmds :
         /\ (pc[c] = "write" /\ pc'[c] = "returned" /\ cmd[c].op = "power")
              => /\ cmd[c].writes = 1
                 /\ cmd[c].frame = <<31, 1, IF cmd[c].x THEN 0 ELSE 1>>
                 /\ power' = Some(cmd[c].x)
         /\ (pc[c] = "idle" /\ pc'[c] # "idle" /\ cmd'[c].op = "power"
               /\ power = Some(cmd'[c].x))
              => /\ pc'[c] = "returned"
                 /\ cmd'[c].writes = 0
                 /\ cmd'[c].frame = <<>>
                 /\ power' = power
         /\ (pc[c] = "idle" /\ pc'[c] # "idle" /\ cmd'[c].op = "power"
               /\ power # Some(cmd'[c].x))
              => pc'[c] = "lock"
      ]_vars

\* setPower(FALSE) has returned after its one write, power was on before
C3_Witness ==
    /\ pc["c1"] = "returned"
    /\ cmd["c1"].op = "power"
    /\ cmd["c1"].x = FALSE
    /\ cmd["c1"].writes = 1
    /\ power = Some(FALSE)

\* C4: the frame setVolume writes is 0B 01 raw with raw inside 0..100
\* (Speaker) or 0..21 (Subwoofer): a request below the profile's range gives
\* 0, one above it the maximum, one inside it the request plus the offset.
C4_SetVolumeRaw ==
    \A c \in Cmds :
      (cmd[c].op = "volume" /\ pc[c] \in {"lock", "write", "returned", "raised"})
        => LET lo == IF cmd[c].sub THEN -15 ELSE -100
               hi == IF cmd[c].sub THEN 6 ELSE 0
               top == IF cmd[c].sub THEN 21 ELSE 100
               raw == cmd[c].frame[3]
           IN  /\ Len(cmd[c].frame) = 3
               /\ cmd[c].frame[1] = 11
               /\ cmd[c].frame[2] = 1
               /\ raw \in 0..top
               /\ cmd[c].x < lo => raw = 0
               /\ cmd[c].x > hi => raw = top
               /\ cmd[c].x \in lo..hi => raw = cmd[c].x - lo

\* a Subwoofer request above +6 dB is being written
C4_Witness ==
    /\ pc["c1"] = "write"
    /\ cmd["c1"].op = "volume"
    /\ cmd["c1"].sub
    /\ cmd["c1"].x > 6
    /\ cmd["c1"].frame = <<11, 1, 21>>

\* C5: a volume notification 0A with raw byte r makes cached volumeDb
\* min(r,100)-100 on a Speaker and min(r,21)-15 on a Subwoofer.
C5_VolumeDecoded ==
    [][\A r \in 0..255 :
         Notify(<<10, 1, r>>)
           => volume_db' = Some(IF is_sub
                                THEN (IF r < 21 THEN r ELSE 21) - 15
                                ELSE (IF r < 100 THEN r ELSE 100) - 100)
      ]_vars

\* a Subwoofer reported a raw byte of 21 or more, cached as +6 dB
C5_Witness == is_sub /\ volume_db = Some(6)

\* The frames the claim lets change Session State: at least 2 bytes, one of
\* the five recognized ids, a payload that is not empty.
FieldUpdating(data) ==
    /\ Len(data) >= 3
    /\ data[1] \in {30, 10, 14, 74, 76}
    /\ data[2] >= 1

\* C6: a frame shorter than 2 bytes, with an unrecognized command id or with
\* an empty payload leaves power, volume, source, mute and role unchanged.
C6_OtherFramesNoEffect ==
    [][\A data \in CodecFrames :
         (~FieldUpdating(data) /\ Notify(data)) => UNCHANGED session
      ]_vars

\* every field is known, so that a frame could change each of them
C6_Witness ==
    /\ power = Some(TRUE)
    /\ volume_db # None
    /\ source_code # None
    /\ muted = Some(TRUE)
    /\ is_slave = Some(FALSE)
    /\ subscribed
    /\ linkUp

\* C7: when the k-th connect attempt of an _ensure_connected call is the
\* first to succeed, the call has slept k-1 backoff delays and scheduled the
\* indication sequence once; so has a call still trying its k-th attempt,
\* which has scheduled nothing.
C7_BackoffsBeforeSuccess ==
    \A u \in Cycles :
      /\ ens[u].st = "ok" => (ens[u].backoffs = ens[u].k - 1 /\ ens[u].scheduled = 1)
      /\ pc[u] \in {"connecting", "subscribing"}
           => (ens[u].backoffs = ens[u].k - 1 /\ ens[u].scheduled = 0)

\* two failures, then the third attempt succeeded
C7_Witness ==
    /\ pc["u1"] = "qwrite"
    /\ ens["u1"].st = "ok"
    /\ ens["u1"].k = 3
    /\ ens["u1"].backoffs = 2
    /\ ens["u1"].scheduled = 1
    /\ ind["start"] = 1

\* C8 (as claimed): _ensure_connected never returns normally from a call
\* whose 3 connect attempts all failed.
C8_ConnectFailedSurfaces ==
    \A u \in Cycles : ens[u].st # "exhausted"

\* C9 (as claimed): a field-updating notification that arrives while a cycle
\* waits for notifications ends that wait.
C9_NotificationEndsWait ==
    [][\A u \in Cycles, data \in Frames :
         (pc[u] = "wait" /\ FieldUpdating(data) /\ Notify(data))
           => (event_set'[u] \/ pc'[u] # "wait")
      ]_vars

\* C10 (as claimed): after a connect whose characteristic advertises notify
\* and whose subscription succeeded, notifications count as supported.
C10_FlagFromThisConnect ==
    \A u \in Cycles :
      (ens[u].st = "ok" /\ ens[u].sub = "subscribed") => notif_supported

\* C11: a cached field that is known never returns to unknown, and a cached
\* field changes only on the step that decodes a notification of that field,
\* or, for power, on the step where a setPower write returns.
C11_KnownStaysKnown ==
    [][/\ power # None => power' # None
       /\ volume_db # None => volume_db' # None
       /\ source_code # None => source_code' # None
       /\ muted # None => muted' # None
       /\ is_slave # None => is_slave' # None
       /\ power' # power =>
            \/ \E data \in Frames :
                 FieldUpdating(data) /\ data[1] = 30 /\ Notify(data)
            \/ \E c \in Cmds :
                 /\ pc[c] = "write" /\ pc'[c] = "returned"
                 /\ cmd[c].op = "power" /\ power' = Some(cmd[c].x)
       /\ volume_db' # volume_db =>
            \E data \in Frames :
              FieldUpdating(data) /\ data[1] = 10 /\ Notify(data)
       /\ source_code' # source_code =>
            \E data \in Frames :
              FieldUpdating(data) /\ data[1] = 14 /\ Notify(data)
       /\ muted' # muted =>
            \E data \in Frames :
              FieldUpdating(data) /\ data[1] = 74 /\ Notify(data)
       /\ is_slave' # is_slave =>
            \E data \in Frames :
              FieldUpdating(data) /\ data[1] = 76 /\ Notify(data)
      ]_vars

\* a Subwoofer in polling fallback: both passes of a cycle went by with no
\* message, volume and power cached earlier are still there, source unknown
C11_Witness ==
    /\ pc["u1"] = "returned"
    /\ attempt["u1"] = 2
    /\ ~notif_supported
    /\ is_sub
    /\ volume_db = Some(6)
    /\ power # None
    /\ source_code = None

\* C12: a pass that ends without error while cached volume and source are
\* both known ends the cycle: it returns on that step, with no further pass
\* and so no further query write.
C12_FullSnapshotReturns ==
    [][\A u \in Cycles :
         (pc[u] \in {"wait", "sleep"} /\ pc'[u] # pc[u]
            /\ volume_db # None /\ source_code # None)
           => (pc'[u] = "returned" /\ attempt'[u] = attempt[u])
      ]_vars

\* a Speaker sent 1E 01 00, 0A 01 32 and 0E 01 00 and the cycle returned after
\* its first pass
C12_Witness ==
    /\ pc["u1"] = "returned"
    /\ attempt["u1"] = 1
    /\ ~is_sub
    /\ power = Some(TRUE)
    /\ volume_db = Some(-50)
    /\ source_code = Some(0)

\* C13 (as claimed): a cycle in which all connect attempts failed, or whose
\* query write failed, raises UpdateFailed, and a cycle raises it only then,
\* never out of the wait for notifications.
C13_UpdateFailedIff ==
    \A u \in Cycles :
      /\ ens[u].st \in {"exhausted", "connect_failed", "write_failed"}
           => pc[u] = "raised"
      /\ pc[u] = "raised" => ens[u].st # "none"

\* C14 (as claimed): when a query or command write raises, the handle is
\* invalidated, so that no stored client reports itself connected.
C14_WriteErrorInvalidates ==
    [][\A p \in Procs :
         (pc[p] \in {"qwrite", "write"} /\ pc'[p] = "raised")
           => ~(hasClient' /\ linkUp')
      ]_vars

\* C15 (as claimed): a disconnect that closes the link while a pass waits for
\* notifications, or sleeps its polling delay, ends that wait on the spot.
C15_DisconnectEndsWait ==
    [][\A u \in Cycles :
         (pc[u] \in {"wait", "sleep"} /\ Disconnect)
           => pc'[u] \notin {"wait", "sleep"}
      ]_vars

C17_ConnectedNoOp ==
    [][\A u \in Cycles :
         (pc[u] = "lock" /\ pc'[u] # "lock" /\ hasClient /\ linkUp)
           => /\ pc'[u] = "qwrite"
              /\ ens'[u].k = 0
              /\ ens'[u].backoffs = 0
              /\ ens'[u].scheduled = 0
              /\ ens'[u].sub = "none"
              /\ UNCHANGED <<session, hasClient, linkUp, subscribed, is_sub,
                             notif_supported, ind>>
      ]_vars

\* a later cycle writes its query on the handle of an earlier one, whose
\* indication sequence is over
C17_Witness ==
    /\ pc["u1"] = "qwrite"
    /\ ens["u1"].st = "connected"
    /\ IndTotal = 0
    /\ volume_db # None

\* C18: no step of a setVolume, setMute or selectSource call changes a cached
\* field, and none of them has called async_set_updated_data when it returns
\* or raises.
C18_CommandsKeepState ==
    [][\A c \in Cmds :
         (pc'[c] # pc[c]
            /\ (cmd[c].op \in {"volume", "mute", "source"}
                  \/ cmd'[c].op \in {"volume", "mute", "source"}))
           => (UNCHANGED session /\ ~cmd'[c].emitted)
      ]_vars

\* setVolume(-20) has returned after its write while -50 dB is cached
C18_Witness ==
    /\ pc["c1"] = "returned"
    /\ cmd["c1"].op = "volume"
    /\ cmd["c1"].x = -20
    /\ cmd["c1"].writes = 1
    /\ volume_db = Some(-50)

\* C19: a step on which an indication task ends before its second write
\* (a write raised, or the client was gone) changes no task's position, so it
\* raises in none of them, and leaves the cached fields, the handle, the
\* profile and the notifications flag as they were.
C19_IndicationFailureSwallowed ==
    [][(IndTotal' < IndTotal /\ ind'["off"] = ind["off"]
          /\ ind'["off_nr"] = ind["off_nr"])
         => UNCHANGED <<session, pc, ens, cmd, ble_lock, hasClient, linkUp,
                        subscribed, is_sub, notif_supported>>
      ]_vars

\* the link went away during the 5 s sleep of the sequence
C19_Witness ==
    /\ ind["sleep"] = 1
    /\ hasClient
    /\ ~linkUp

\* C20: a call of disconnect leaves every task where it was (it raises in
\* none), changes nothing but the link, which it can only take down, and
\* changes nothing at all without a stored, connected client.
C20_DisconnectSafe ==
    [][Disconnect
         => /\ hasClient /\ linkUp
            /\ ~linkUp'
            /\ UNCHANGED <<session, pc, ens, cmd, ble_lock, hasClient, is_sub,
                           notif_supported, ind, attempt>>
      ]_vars

\* the link was closed while a pass waited: a second disconnect finds a stored
\* client that is not connected
C20_Witness ==
    /\ pc["u1"] = "wait"
    /\ hasClient
    /\ ~linkUp

\* C21: on the step that issues it, a query write, a command write and each
\* of the two indication writes asks for a response exactly when the profile
\* at that moment is Speaker.
C21_ResponseIffSpeaker ==
    [][/\ \A u \in Cycles :
            (pc'[u] = "qwrite" /\ pc[u] # "qwrite") => ens'[u].ack = ~is_sub'
       /\ \A c \in Cmds :
            (pc'[c] = "write" /\ pc[c] # "write") => cmd'[c].ack = ~is_sub'
       /\ (ind'["on"] > ind["on"] \/ ind'["off"] > ind["off"]) => ~is_sub'
       /\ (ind'["on_nr"] > ind["on_nr"] \/ ind'["off_nr"] > ind["off_nr"])
            => is_sub'
      ]_vars

\* a Subwoofer: the query write and the first indication write are in flight,
\* neither asking for a response
C21_Witness ==
    /\ is_sub
    /\ pc["u1"] = "qwrite"
    /\ ~ens["u1"].ack
    /\ ind["on_nr"] = 1
    /\ ind["on"] = 0

\* C22 (as claimed): a source selected by name is looked up in the table of
\* the active profile with case ignored and spaces and hyphens stripped; a
\* match writes 0F 01 code, no match writes nothing.
C22_SourceByName ==
    [][\A c \in Cmds, source \in SourceInputs :
         EntitySelectSource(c, source)
           => LET key == Upper(StripSeparators(source))
                  hits == {e \in SourceNames(is_sub) :
                             Upper(StripSeparators(e[2])) = key}
              IN  IF hits = {}
                  THEN pc'[c] = "returned" /\ cmd'[c].frame = <<>>
                  ELSE /\ pc'[c] = "lock"
                       /\ cmd'[c].frame = <<15, 1, (CHOOSE e \in hits : TRUE)[1]>>
      ]_vars

\* C23: a cycle runs at most 2 passes and each pass issues at most one query
\* write, which comes before the wait of that pass; the second pass starts
\* only out of the wait (or polling sleep) of the first, so after a pass
\* that raised nothing, while cached volume or source is unknown, and never
\* when the deadline had passed at the end of the first.
C23_AtMostTwoQueries ==
    [][\A u \in Cycles :
         /\ attempt'[u] \in 0..2
         /\ (pc'[u] = "qwrite" /\ pc[u] # "qwrite")
              => /\ pc[u] \in {"lock", "connecting", "subscribing", "backoff"}
                 /\ attempt'[u] \in 1..2
                 /\ attempt'[u] = attempt[u]
         /\ (pc'[u] \in {"connecting", "subscribing", "backoff"}
               /\ pc[u] \notin {"connecting", "subscribing", "backoff"})
              => pc[u] = "lock"
         /\ (pc'[u] \in {"wait", "sleep"} /\ pc[u] # pc'[u])
              => pc[u] = "qwrite"
         /\ (pc'[u] = "lock" /\ pc[u] # "lock")
              => \/ pc[u] = "idle" /\ attempt'[u] = 1
                 \/ /\ pc[u] \in {"wait", "sleep"}
                    /\ attempt[u] = 1
                    /\ attempt'[u] = 2
                    /\ volume_db = None \/ source_code = None
         /\ (pc[u] \in {"wait", "sleep"} /\ AttemptEnd(u, TRUE))
              => pc'[u] = "returned"
      ]_vars

\* the second query write of a cycle is in flight, source still unknown
C23_Witness ==
    /\ pc["u1"] = "qwrite"
    /\ attempt["u1"] = 2
    /\ volume_db # None
    /\ source_code = None

\* C24 (as claimed): cached volumeDb, when known, lies inside the range of
\* the active profile, -100..0 for a Speaker and -15..6 for a Subwoofer.
C24_VolumeInProfileRange ==
    volume_db # None
      => IF is_sub THEN volume_db[1] \in -15..6 ELSE volume_db[1] \in -100..0

\* C25 (as claimed): a connect attempt that ends in failure does not change
\* the profile.  On a link that is never lost a backoff is only waited while
\* no connect has succeeded yet, so the profile is still the one of
\* construction, Speaker.
C25_ProfileOnlyOnSuccess ==
    \A u \in Cycles : pc[u] = "backoff" => ~is_sub

\* C26 (as claimed): an _ensure_connected call makes at most 3 connect
\* attempts and sleeps at most 2 backoff delays.
C26_NoBackoffAfterLast ==
    \A u \in Cycles : ens[u].k <= 3 /\ ens[u].backoffs <= 2

\* C27: the step on which the write of a setPower call raises, or finds no
\* connected client, takes the call to its caller with the error, leaves
\* cached power as it was and calls no async_set_updated_data; a setPower
\* write that ends otherwise has returned with power stored.
C27_FailedSetPower ==
    [][\A c \in Cmds :
         (cmd[c].op = "power" /\ pc[c] \in {"lock", "write"} /\ pc'[c] # pc[c])
           => \/ pc'[c] = "write"
              \/ /\ pc'[c] = "raised"
                 /\ power' = power
                 /\ ~cmd'[c].emitted
              \/ /\ pc'[c] = "returned"
                 /\ pc[c] = "write"
                 /\ power' = Some(cmd[c].x)
                 /\ cmd'[c].emitted
      ]_vars

\* the write of setPower(TRUE) raised while power is cached as off: the
\* guard does not stop a retry
C27_Witness ==
    /\ pc["c1"] = "raised"
    /\ cmd["c1"].op = "power"
    /\ cmd["c1"].x = TRUE
    /\ cmd["c1"].writes = 1
    /\ power = Some(FALSE)
    /\ ~SetPowerSkips(TRUE)

\* C28 (as claimed): a setPower(x) call issues its write only while cached
\* power is unknown or differs from x.
C28_GuardAtWrite ==
    [][\A c \in Cmds :
         (cmd[c].op = "power" /\ pc[c] = "lock" /\ pc'[c] = "write")
           => power # Some(cmd[c].x)
      ]_vars

\* C29: the lock is held only by a cycle inside the lock-protected segment of
\* a pass or by a command whose write is in flight: once a pass or a command
\* write has ended, whether by return, timeout, connect failure or write
\* error, the lock is free for the next taker.
C29_LockReleased ==
    /\ ble_lock # NoTask
         => pc[ble_lock] \in {"connecting", "subscribing", "backoff", "qwrite",
                              "wait", "sleep", "write"}
    /\ (CyclesInside = {} /\ LockedWriters = {}) => ble_lock = NoTask

\* a cycle has raised UpdateFailed on its query write and the command called
\* meanwhile has taken the lock and writes
C29_Witness ==
    /\ pc["u1"] = "raised"
    /\ ens["u1"].st = "write_failed"
    /\ pc["c1"] = "write"
    /\ ble_lock = "c1"

\* C30: from the connectivity check of a pass to the end of its wait or
\* polling sleep the cycle holds the lock, no command write is in flight and
\* a command that waits for the lock goes on waiting.
C30_LockThroughWait ==
    [][\A u \in Cycles, c \in Cmds :
         pc[u] \in {"connecting", "subscribing", "backoff", "qwrite", "wait",
                    "sleep"}
           => /\ ble_lock = u
              /\ pc[c] # "write"
              /\ pc[c] = "lock" => pc'[c] = "lock"
      ]_vars

\* a command called during the wait of a pass queues for the lock
C30_Witness ==
    /\ pc["u1"] = "wait"
    /\ pc["c1"] = "lock"
    /\ ble_lock = "u1"
    /\ hasClient
    /\ linkUp

C32_CycleTerminates ==
    \A u \in {"u1"} :
        (pc[u] \notin {"idle", "returned", "raised"})
          ~> (pc[u] \in {"returned", "raised"})

\* the second pass of a cycle waits for notifications with volume and source
\* still unknown
C32_Witness ==
    /\ pc["u1"] = "wait"
    /\ attempt["u1"] = 2
    /\ ~event_set["u1"]
    /\ volume_db = None
    /\ source_code = None

====
